---- MODULE Spec2Model ----
(***************************************************************************)
(* A model of backend/python_model/process.py: the text redaction          *)
(* primitive (analyze_and_redact_text_once and EMAIL_PATTERN), the         *)
(* per-format file processors, the single-file worker and the parallel     *)
(* orchestrator (main_parallel).                                           *)
(*                                                                         *)
(* Text is a sequence of one-character strings.  Python offsets are        *)
(* 0-based with an exclusive end; sequences here are 1-based, so the       *)
(* Python slice text[start:end] is the elements start+1 .. end.            *)
(***************************************************************************)
EXTENDS Integers, Sequences, FiniteSets, Bags, TLC

\* ---------------------------------------------------------------- bounds

\* Longest input text of the text specification, in vocabulary tokens.
MaxTokens == 3

\* Most entities the recognizer reports for one text.
MaxEntities == 1

\* Most files of one input directory.
MaxFiles == 5

\* Most files of one directory that are in another condition than the
\* ordinary one (a readable document holding PII, processed without fault).
MaxFaulty == 1

\* Most paragraphs, shapes or cells of a document of the map replay.
MaxFragments == 4

\* ------------------------------------------------------- small utilities

Min(a, b) == IF a < b THEN a ELSE b

Max(a, b) == IF a > b THEN a ELSE b

SetMax(S) == CHOOSE x \in S : \A y \in S : y <= x

Range(f) == {f[i] : i \in DOMAIN f}

RECURSIVE Concat(_)
\* "".join(parts) for a sequence of texts
Concat(parts) ==
    IF parts = <<>> THEN <<>> ELSE Head(parts) \o Concat(Tail(parts))

\* ------------------------------------------------------ character classes

Lower == {"a","b","c","d","e","f","g","h","i","j","k","l","m",
          "n","o","p","q","r","s","t","u","v","w","x","y","z"}

Upper == {"A","B","C","D","E","F","G","H","I","J","K","L","M",
          "N","O","P","Q","R","S","T","U","V","W","X","Y","Z"}

Digit == {"0","1","2","3","4","5","6","7","8","9"}

\* \w of the re module, on ASCII text
WordChars == Lower \cup Upper \cup Digit \cup {"_"}

\* [A-Za-z0-9._%+-]
LocalChars == Lower \cup Upper \cup Digit \cup {".", "_", "%", "+", "-"}

\* [A-Za-z0-9.-]
DomainChars == Lower \cup Upper \cup Digit \cup {".", "-"}

\* [A-Z|a-z]: the class holds the bar character as well
TldChars == Upper \cup Lower \cup {"|"}

\* what str.strip() removes
Whitespace == {" ", "\n", "\t", "\r"}

\* a placeholder without its brackets
REDACTED_bare == <<"R","E","D","A","C","T","E","D">>

\* the placeholder written over every redacted region
REDACTED == <<"[","R","E","D","A","C","T","E","D","]">>

\* the delimiter the processors join and split fragments with
NEWLINE == "\n"

\* str.strip() of the text is empty
IsBlank(text) == \A i \in 1..Len(text) : text[i] \in Whitespace

\* ------------------------------------------------------- EMAIL_PATTERN

\* \b before position p (1-based; p = Len+1 is the end of the text)
WordBoundary(s, p) ==
    LET before == p > 1 /\ p - 1 <= Len(s) /\ s[p - 1] \in WordChars
        after  == p >= 1 /\ p <= Len(s) /\ s[p] \in WordChars
    IN  before # after

\* length of the longest run of characters of class C starting at i
RunLen(s, i, C) ==
    SetMax({n \in 0..(Len(s) - i + 1) : \A j \in i..(i + n - 1) : s[j] \in C})

\* The match of EMAIL_PATTERN that starts at position i, as the position just
\* after it; 0 when the pattern does not match at i.  The local part is the
\* whole run of local characters ('@' is not one of them); the greedy domain
\* backtracks from its longest extent, so the dot taken is the last one of
\* the domain run after which two or more TLD characters end on \b, and the
\* TLD is the longest such.
EmailMatchEnd(s, i) ==
    LET l  == RunLen(s, i, LocalChars)
        at == i + l
    IN  IF ~WordBoundary(s, i) \/ l = 0 \/ at > Len(s) THEN 0
        ELSE IF s[at] # "@" THEN 0
        ELSE
          LET d0 == at + 1
              m  == RunLen(s, d0, DomainChars)
              \* <<k, t>>: domain of k characters, the dot, a TLD of t characters
              cands == {c \in (1..(m - 1)) \X (2..Len(s)) :
                          /\ s[d0 + c[1]] = "."
                          /\ d0 + c[1] + c[2] <= Len(s)
                          /\ \A j \in 1..c[2] : s[d0 + c[1] + j] \in TldChars
                          /\ WordBoundary(s, d0 + c[1] + c[2] + 1)}
          IN  IF cands = {} THEN 0
              ELSE LET k == SetMax({c[1] : c \in cands})
                       t == SetMax({c[2] : c \in {x \in cands : x[1] = k}})
                   IN  d0 + k + t + 1

RECURSIVE EmailMatchesFrom(_, _)
\* the non-overlapping matches found scanning from position i, left to right
EmailMatchesFrom(s, i) ==
    IF i > Len(s) THEN <<>>
    ELSE LET e == EmailMatchEnd(s, i)
         IN  IF e > 0 THEN << <<i, e>> >> \o EmailMatchesFrom(s, e)
             ELSE EmailMatchesFrom(s, i + 1)

\* EMAIL_PATTERN.findall(text)
EMAIL_PATTERN_findall(text) == EmailMatchesFrom(text, 1)

RECURSIVE ReplaceMatches(_, _, _, _)
ReplaceMatches(s, matches, i, repl) ==
    IF matches = <<>> THEN SubSeq(s, i, Len(s))
    ELSE SubSeq(s, i, Head(matches)[1] - 1) \o repl
         \o ReplaceMatches(s, Tail(matches), Head(matches)[2], repl)

\* EMAIL_PATTERN.sub("[REDACTED]", text)
EMAIL_PATTERN_sub(text) ==
    ReplaceMatches(text, EmailMatchesFrom(text, 1), 1, REDACTED)

\* --------------------------------------- analyze_and_redact_text_once

PiiKeys == {"person", "organization", "location", "email", "phone"}

\* the empty dict {}
EmptyDict == <<>>

\* list[start:end] = repl, with Python's clamping of slice bounds
SliceAssign(list, start, end, repl) ==
    LET n == Len(list)
        s == Min(start, n)
        e == Max(s, Min(end, n))
    IN  SubSeq(list, 1, s) \o repl \o SubSeq(list, e + 1, n)

RECURSIVE RedactEntities(_, _, _, _)
\* the loop "for ent in reversed(entities)": i runs from Len(entities) to 1
RedactEntities(redacted, pii_counts, entities, i) ==
    IF i = 0 THEN [redacted |-> redacted, pii_counts |-> pii_counts]
    ELSE
      LET ent == entities[i]
          group == ent.entity_group
      IN  IF group \in {"PER", "ORG", "LOC"} /\ ent.start < ent.end
          THEN RedactEntities(
                 SliceAssign(redacted, ent.start, ent.end, REDACTED),
                 IF group = "PER"
                 THEN [pii_counts EXCEPT !["person"] = @ + 1]
                 ELSE IF group = "ORG"
                 THEN [pii_counts EXCEPT !["organization"] = @ + 1]
                 ELSE [pii_counts EXCEPT !["location"] = @ + 1],
                 entities, i - 1)
          ELSE RedactEntities(redacted, pii_counts, entities, i - 1)

\* the findings appended after the email pass
CountFindings(pii_counts) ==
    (IF pii_counts["person"] > 0
     THEN << [description |-> <<"person names", pii_counts["person"]>>,
              severity |-> "High"] >>
     ELSE <<>>)
    \o
    (IF pii_counts["organization"] > 0
     THEN << [description |-> <<"organization names", pii_counts["organization"]>>,
              severity |-> "Medium"] >>
     ELSE <<>>)
    \o
    (IF pii_counts["email"] > 0
     THEN << [description |-> <<"email addresses", pii_counts["email"]>>,
              severity |-> "High"] >>
     ELSE <<>>)

\* redacted_text of line 125: the text after the entity loop, before the
\* email pass
EntityRedactedText(text, entities) ==
    RedactEntities(text, [k \in PiiKeys |-> 0], entities, Len(entities)).redacted

\* analyze_and_redact_text_once(text), with the recognizer's behaviour on
\* this text given as ner = [fails, entities]
analyze_and_redact_text_once(text, ner) ==
    IF IsBlank(text)
    THEN [text |-> text, pii_counts |-> EmptyDict, vulnerabilities |-> <<>>]
    ELSE IF ner.fails
    THEN [text |-> text, pii_counts |-> EmptyDict,
          vulnerabilities |-> << [description |-> <<"NER failed", 0>>,
                                  severity |-> "High"] >>]
    ELSE
      LET loop == RedactEntities(text, [k \in PiiKeys |-> 0],
                                 ner.entities, Len(ner.entities))
          redacted_text == loop.redacted
          emails_found == Len(EMAIL_PATTERN_findall(redacted_text))
          pii_counts == [loop.pii_counts EXCEPT !["email"] = emails_found]
      IN  [text |-> EMAIL_PATTERN_sub(redacted_text),
           pii_counts |-> pii_counts,
           vulnerabilities |-> CountFindings(pii_counts)]

\* ------------------------------------------------ joining and splitting

RECURSIVE Join(_, _)
\* sep.join(blocks)
Join(blocks, sep) ==
    IF blocks = <<>> THEN <<>>
    ELSE IF Len(blocks) = 1 THEN blocks[1]
    ELSE blocks[1] \o <<sep>> \o Join(Tail(blocks), sep)

RECURSIVE Split(_, _)
\* text.split(sep): Len = 1 + the number of separators in the text
Split(text, sep) ==
    LET hits == {i \in 1..Len(text) : text[i] = sep}
    IN  IF hits = {} THEN << text >>
        ELSE LET i == CHOOSE h \in hits : \A g \in hits : h <= g
             IN  << SubSeq(text, 1, i - 1) >>
                 \o Split(SubSeq(text, i + 1, Len(text)), sep)

\* ------------------------------------------------------ the text inputs

\* The words input texts are made of.  The recognizer reports entities on
\* token boundaries, as its tokenizer does.
Vocabulary ==
    { <<"J","o">>,
      <<"@">>,
      <<"b",".","c","d">>,
      <<"a","@","b",".","c","d">>,
      <<NEWLINE>> }

\* the end-to-end scenario of the specification, in six tokens
ScenarioTokens ==
    << <<"C","o","n","t","a","c","t"," ">>,
       <<"J","a","n","e"," ","D","o","e">>,
       <<" ","a","t"," ">>,
       <<"j","a","n","e",".","d","o","e","@","e","x","a","m","p","l","e",".","c","o","m">>,
       <<" ","o","r"," ">>,
       <<"5","5","5","-","1","2","3","-","4","5","6","7">> >>

ScenarioText == Concat(ScenarioTokens)

TokenSeqs == UNION {[1..n -> Vocabulary] : n \in 0..MaxTokens}

TextInputs == TokenSeqs \cup {ScenarioTokens}

\* 0-based offset of the first character of token i, and of the character
\* after its last
TokenStart(toks, i) == Len(Concat(SubSeq(toks, 1, i - 1)))

TokenEnd(toks, i) == Len(Concat(SubSeq(toks, 1, i)))

EntityGroups == {"PER", "ORG", "LOC", "MISC"}

\* the entity over tokens i..j
Entity(toks, i, j, group) ==
    [start |-> TokenStart(toks, i), end |-> TokenEnd(toks, j),
     entity_group |-> group]

\* token ranges an entity can cover: it starts and ends on a token that is
\* not whitespace
TokenSpans(toks) ==
    {sp \in (1..Len(toks)) \X (1..Len(toks)) :
        /\ sp[1] <= sp[2]
        /\ ~IsBlank(toks[sp[1]])
        /\ ~IsBlank(toks[sp[2]])}

\* What ner_pipeline can return for the text: up to MaxEntities entities in
\* order of appearance, none overlapping the next (aggregation_strategy
\* "simple" groups adjacent tokens, whitespace between them included).
EntityLists(toks) ==
    IF toks = ScenarioTokens
    THEN { << Entity(toks, 2, 2, "PER") >> }
    ELSE
      LET choices == TokenSpans(toks) \X EntityGroups
          lists == UNION {[1..n -> choices] : n \in 0..MaxEntities}
          ordered == {l \in lists :
                        \A k \in 1..(Len(l) - 1) : l[k][1][2] < l[k + 1][1][1]}
      IN  {[k \in 1..Len(l) |-> Entity(toks, l[k][1][1], l[k][1][2], l[k][2])] :
             l \in ordered}

\* The recognizer's behaviour on a text: the call raises, or returns a list.
RecognizerBehaviours(toks) ==
    {[fails |-> FALSE, entities |-> es] : es \in EntityLists(toks)}
    \cup {[fails |-> TRUE, entities |-> <<>>]}

\* [p.text for p in doc.paragraphs] of a document whose text is the tokens
BlocksOf(toks) ==
    IF toks = <<>> THEN <<>> ELSE Split(Concat(toks), NEWLINE)

\* ----------------------------------------------------- the redaction map

\* the zip loop without its test "if orig not in redaction_map": every
\* recurrence overwrites the mapping, so the last one is kept
BuildRedactionMapLast(blocks, redacted_lines) ==
    LET n == Min(Len(blocks), Len(redacted_lines))
    IN  [orig \in {blocks[i] : i \in 1..n} |->
           redacted_lines[CHOOSE i \in 1..n :
                            /\ blocks[i] = orig
                            /\ \A j \in (i + 1)..n : blocks[j] # orig]]

\* the loop of lines 206-209: zip stops at the shorter list, and only the
\* first mapping of a recurring original is kept
BuildRedactionMap(blocks, redacted_lines) ==
    LET n == Min(Len(blocks), Len(redacted_lines))
    IN  [orig \in {blocks[i] : i \in 1..n} |->
           redacted_lines[CHOOSE i \in 1..n :
                            /\ blocks[i] = orig
                            /\ \A j \in 1..(i - 1) : blocks[j] # orig]]

\* redaction_map.get(orig_text, orig_text)
redact_using_map(orig_text, redaction_map) ==
    IF orig_text \in DOMAIN redaction_map
    THEN redaction_map[orig_text] ELSE orig_text

\* The rebuild loops of process_docx and process_pptx: a paragraph or shape
\* is looked up only when its text is not blank, and written only when the
\* mapped value differs (writing an equal value changes nothing).
RebuildParagraphs(paragraphs, redaction_map) ==
    [i \in 1..Len(paragraphs) |->
       IF paragraphs[i] # <<>> /\ ~IsBlank(paragraphs[i])
       THEN redact_using_map(paragraphs[i], redaction_map)
       ELSE paragraphs[i]]

\* The rebuild loop of process_xlsx: a cell is looked up when it holds a
\* non-empty string.
RebuildCells(cells, redaction_map) ==
    [i \in 1..Len(cells) |->
       IF cells[i] # <<>>
       THEN redact_using_map(cells[i], redaction_map)
       ELSE cells[i]]

NotEmpty(t) == t # <<>>

NotBlank(t) == ~IsBlank(t)

\* safe_read_text_blocks_from_docx: every paragraph's text
safe_read_text_blocks_from_docx(paragraphs) == paragraphs

\* safe_read_text_blocks_from_pptx: the shapes whose text is not empty
safe_read_text_blocks_from_pptx(shapes) == SelectSeq(shapes, NotEmpty)

\* safe_read_text_blocks_from_xlsx: the cells holding a non-empty string
safe_read_text_blocks_from_xlsx(cells) == SelectSeq(cells, NotEmpty)

\* ------------------------------------------------- files and environment

\* What the run meets for one input file: whether it is still a file when
\* its worker looks, whether its container opens, whether its bytes can be
\* read (copied), whether the recognizer answers, whether the serializer's
\* save succeeds, whether some step of the processing raises, and its text
\* (paragraphs, shapes, cells, rows, pages or OCR words, one per line) with
\* the OCR confidence of each token.
PiiTokens == << <<"J","o">>, <<NEWLINE>>, <<"a","@","b",".","c","d">> >>

CleanTokens == << <<"b",".","c","d">>, <<NEWLINE>>, <<"b",".","c","d">> >>

HealthyFile ==
    [exists |-> TRUE, opens |-> TRUE, readable |-> TRUE, ner_ok |-> TRUE,
     save_ok |-> TRUE, crash |-> FALSE, toks |-> PiiTokens]

Conditions ==
    {"pii", "clean", "empty", "nerfail", "corrupt", "unreadable",
     "savefail", "crash", "vanished"}

\* the conditions under which nothing goes wrong and the file holds PII
Ordinary == {"pii"}

EnvOf(cond) ==
    CASE cond = "pii"        -> HealthyFile
      [] cond = "clean"      -> [HealthyFile EXCEPT !.toks = CleanTokens]
      [] cond = "empty"      -> [HealthyFile EXCEPT !.toks = <<>>]
      [] cond = "nerfail"    -> [HealthyFile EXCEPT !.ner_ok = FALSE]
      [] cond = "corrupt"    -> [HealthyFile EXCEPT !.opens = FALSE]
      [] cond = "unreadable" -> [HealthyFile EXCEPT !.opens = FALSE,
                                                    !.readable = FALSE]
      [] cond = "savefail"   -> [HealthyFile EXCEPT !.save_ok = FALSE]
      [] cond = "crash"      -> [HealthyFile EXCEPT !.crash = TRUE]
      [] cond = "vanished"   -> [HealthyFile EXCEPT !.exists = FALSE]

\* OCR confidence of token i: the last word of the image is read poorly
OcrConf(toks, i) == IF i = Len(toks) THEN 40 ELSE 95

RECURSIVE NameSpansFrom(_, _)
\* The recognizer of the batch runs knows one name, "Jo", and reports each
\* whole-word occurrence of it as a person, in order of appearance.
NameSpansFrom(text, i) ==
    IF i + 1 > Len(text) THEN <<>>
    ELSE IF /\ text[i] = "J" /\ text[i + 1] = "o"
            /\ WordBoundary(text, i) /\ WordBoundary(text, i + 2)
         THEN << [start |-> i - 1, end |-> i + 1, entity_group |-> "PER"] >>
              \o NameSpansFrom(text, i + 2)
         ELSE NameSpansFrom(text, i + 1)

\* ner_pipeline(text) for a file of the batch
ner_pipeline(env, text) ==
    [fails |-> ~env.ner_ok, entities |-> NameSpansFrom(text, 1)]

\* ------------------------------------------------------- file processors

Finding(description, severity) ==
    [description |-> <<description, 0>>, severity |-> severity]

\* A processor's outcome: it returned (pii, vulns and, for an image, the
\* description) or raised, and what it left at output_path: "nothing",
\* "copy" (shutil.copy of the input), "saved" (the serializer's complete
\* output) or "partial" (a save that raised midway).
Returned(pii, vulns, written) ==
    [raised |-> FALSE, pii |-> pii, vulns |-> vulns, written |-> written,
     description |-> "none"]

Raised ==
    [raised |-> TRUE, pii |-> EmptyDict, vulns |-> <<>>, written |-> "nothing",
     description |-> "none"]

\* the open failure is not caught by the processor: it reaches the worker
OpenFailureEscapes(env, what) == {Raised}

\* shutil.copy(file_path, output_path) in an "except" clause that returns
\* the finding: the copy itself raises when the input cannot be read
CopyAfterOpenFailure(env, what) ==
    IF env.readable
    THEN {Returned(EmptyDict, << Finding(what, "High") >>, "copy")}
    ELSE {Raised}

\* the try block that ends the processors of docx, pptx, xlsx and csv
SaveOrCopy(env, changed, a, what) ==
    IF changed /\ ~env.save_ok
    THEN {Returned(a.pii_counts,
                   a.vulnerabilities \o << Finding(what, "High") >>, "copy")}
    ELSE {Returned(a.pii_counts, a.vulnerabilities,
                   IF changed THEN "saved" ELSE "copy")}

process_pdf(env) ==
    IF ~env.opens
    THEN {Returned(EmptyDict, << Finding("Failed to open PDF", "High") >>,
                   "nothing")}
    ELSE IF env.crash THEN {Raised}
    ELSE
      LET page_texts == BlocksOf(env.toks)
          full_text == Join(SelectSeq(page_texts, NotBlank), NEWLINE)
          a == analyze_and_redact_text_once(full_text,
                                            ner_pipeline(env, full_text))
      IN  IF env.save_ok
          THEN {Returned(a.pii_counts, a.vulnerabilities, "saved")}
          ELSE {Returned(a.pii_counts,
                         a.vulnerabilities
                           \o << Finding("Failed to save PDF", "High") >>, w) :
                  w \in {"nothing", "partial"}}

\* lines 197-229, shared in shape by process_docx, process_pptx and
\* process_xlsx: blocks are the extracted fragments, rebuilt the fragments
\* after the rebuild loop, which looks up cells in process_xlsx and
\* paragraphs or shapes in the other two
StructuralRedact(env, fragments, blocks, cells, what) ==
    IF blocks = <<>> THEN {Returned(EmptyDict, <<>>, "copy")}
    ELSE IF env.crash THEN {Raised}
    ELSE
      LET full_text == Join(blocks, NEWLINE)
          a == analyze_and_redact_text_once(full_text,
                                            ner_pipeline(env, full_text))
          redacted_lines == Split(a.text, NEWLINE)
          redaction_map == BuildRedactionMap(blocks, redacted_lines)
          rebuilt == IF cells
                     THEN RebuildCells(fragments, redaction_map)
                     ELSE RebuildParagraphs(fragments, redaction_map)
          changed == rebuilt # fragments
      IN  SaveOrCopy(env, changed, a, what)

process_docx(env) ==
    IF ~env.opens THEN CopyAfterOpenFailure(env, "Failed to open DOCX")
    ELSE LET paragraphs == BlocksOf(env.toks)
         IN  StructuralRedact(env, paragraphs,
                              safe_read_text_blocks_from_docx(paragraphs),
                              FALSE, "Failed to save DOCX")

process_pptx(env) ==
    IF ~env.opens THEN CopyAfterOpenFailure(env, "Failed to open PPTX")
    ELSE LET shapes == BlocksOf(env.toks)
         IN  StructuralRedact(env, shapes,
                              safe_read_text_blocks_from_pptx(shapes),
                              FALSE, "Failed to save PPTX")

process_xlsx(env) ==
    IF ~env.opens THEN CopyAfterOpenFailure(env, "Failed to open XLSX")
    ELSE LET cells == BlocksOf(env.toks)
         IN  StructuralRedact(env, cells,
                              safe_read_text_blocks_from_xlsx(cells),
                              TRUE, "Failed to save XLSX")

\* A CSV file of one column: each line of the text is a row of one cell.
process_csv(env) ==
    IF ~env.opens THEN CopyAfterOpenFailure(env, "Failed to read CSV")
    ELSE
      LET rows == [i \in 1..Len(BlocksOf(env.toks)) |-> << BlocksOf(env.toks)[i] >>]
          row_blocks == [i \in 1..Len(rows) |-> Join(rows[i], " ")]
      IN  IF \A i \in 1..Len(row_blocks) : IsBlank(row_blocks[i])
          THEN {Returned(EmptyDict, <<>>, "copy")}
          ELSE IF env.crash THEN {Raised}
          ELSE
            LET full_text == Join(row_blocks, NEWLINE)
                a == analyze_and_redact_text_once(full_text,
                                                  ner_pipeline(env, full_text))
                newCell(v) ==
                    IF ~IsBlank(v)
                    THEN analyze_and_redact_text_once(v, ner_pipeline(env, v)).text
                    ELSE v
                changed == \E i \in 1..Len(rows) : \E j \in 1..Len(rows[i]) :
                              newCell(rows[i][j]) # rows[i][j]
            IN  SaveOrCopy(env, changed, a, "Failed to save CSV")

RECURSIVE Strip(_)
\* str.strip()
Strip(t) ==
    IF t = <<>> THEN t
    ELSE IF Head(t) \in Whitespace THEN Strip(Tail(t))
    ELSE IF t[Len(t)] \in Whitespace THEN Strip(SubSeq(t, 1, Len(t) - 1))
    ELSE t

RECURSIVE SplitWhitespace(_)
\* str.split(): the maximal runs of characters that are not whitespace
SplitWhitespace(t) ==
    LET u == Strip(t)
        n == SetMax({k \in 0..Len(u) : \A j \in 1..k : u[j] \notin Whitespace})
    IN  IF u = <<>> THEN <<>>
        ELSE << SubSeq(u, 1, n) >> \o SplitWhitespace(SubSeq(u, n + 1, Len(u)))

OCR_CONF_THRESHOLD == 60

\* lines 384-391: the OCR words that the redaction of the joined OCR text
\* changed
OcrRedactedSet(env, ocr_text) ==
    IF IsBlank(ocr_text) THEN {}
    ELSE LET orig_tokens == SplitWhitespace(ocr_text)
             red_tokens == SplitWhitespace(
                 analyze_and_redact_text_once(
                     ocr_text, ner_pipeline(env, ocr_text)).text)
         IN  {orig_tokens[i] :
                i \in {j \in 1..Min(Len(orig_tokens), Len(red_tokens)) :
                         orig_tokens[j] # red_tokens[j]}}

\* lines 395-407 for OCR entry i, whose stripped text is word
ShouldRedact(env, words, redacted_set, i, word) ==
    /\ OcrConf(words, i) >= OCR_CONF_THRESHOLD
    /\ word # <<>>
    /\ \/ word \in redacted_set
       \/ analyze_and_redact_text_once(word, ner_pipeline(env, word)).text # word

\* lines 393-411: the number of words painted over
RedactedWords(env, words, redacted_set) ==
    Cardinality({i \in 1..Len(words) :
                   ShouldRedact(env, words, redacted_set, i, Strip(words[i]))})

\* lines 413-426
ImageOutcome(env, redacted_words, vulnerabilities) ==
    IF redacted_words > 0 /\ ~env.save_ok
    THEN Returned(EmptyDict,
                  vulnerabilities \o << Finding("Failed to save image", "High") >>,
                  "copy")
    ELSE Returned(EmptyDict, vulnerabilities,
                  IF redacted_words > 0 THEN "saved" ELSE "copy")

OcrFindings(redacted_words) ==
    IF redacted_words > 0
    THEN << [description |-> <<"sensitive words found via OCR", redacted_words>>,
             severity |-> "Medium"] >>
    ELSE <<>>

ImageResult(env, redacted_words) ==
    [ImageOutcome(env, redacted_words, OcrFindings(redacted_words))
       EXCEPT !.description = "caption"]

\* The OCR text list is the tokens of the file's text.  Everything runs in
\* one try block: a failure to load the image, to caption it or to run OCR
\* returns one High finding and writes nothing.
process_image(env) ==
    IF ~env.opens \/ env.crash
    THEN {[Returned(EmptyDict,
                    << Finding("Failed to process image", "High") >>, "nothing")
             EXCEPT !.description = "Could not analyze image."]}
    ELSE {ImageResult(env,
            RedactedWords(env, env.toks,
              OcrRedactedSet(env, Join(SelectSeq(env.toks, NotEmpty), " "))))}

\* ------------------------------------------------ the single-file worker

\* A file name is its stem alone, or its stem, a dot and its extension.
Catalogue ==
    << <<"report", ".", "pdf">>,
       <<"report", ".", "docx">>,
       <<"scan", ".", "PNG">>,
       <<"data", ".", "csv">>,
       <<"deck", ".", "pptx">>,
       <<"book", ".", "xlsm">>,
       <<"notes", ".", "txt">>,
       <<"README">> >>

\* str.lower() on the extensions of the catalogue
LowerCase(ext) ==
    CASE ext = "PNG" -> "png"
      [] ext = "PDF" -> "pdf"
      [] OTHER -> ext

\* p_file.suffix.lower().replace(".", "")
FileType(name) == IF Len(name) >= 3 THEN LowerCase(name[Len(name)]) ELSE ""

IMAGE_TYPES == {"jpg", "jpeg", "png", "bmp"}

CLEANSED_DIR == "cleansed_files"

REDACTED_IMG_DIR == "redacted_images"

\* cleansed_name = f"cleansed_{p_file.name}", without the extension: two
\* files that differ only in their extension get one name
cleansed_name_stem(name) == <<"cleansed_", name[1]>>

\* cleansed_name = f"cleansed_{p_file.name}"
cleansed_name(name) == <<"cleansed_">> \o name

\* os.path.join(<directory of the file type>, cleansed_name)
cleansed_path(name) ==
    << IF FileType(name) \in IMAGE_TYPES THEN REDACTED_IMG_DIR ELSE CLEANSED_DIR,
       "/" >> \o cleansed_name(name)

\* cleansedFilePath of a result whose processing raised: None
NoPath == <<>>

\* the else branch of the dispatch: shutil.copy and one Low finding
copy_unsupported(env) ==
    IF env.readable
    THEN {Returned(EmptyDict,
                   << Finding("File type is not supported for redaction", "Low") >>,
                   "copy")}
    ELSE {Raised}

\* the if/elif chain of lines 456-477
Dispatch(file_type, env) ==
    CASE file_type = "pdf" -> process_pdf(env)
      [] file_type = "docx" -> process_docx(env)
      [] file_type = "pptx" -> process_pptx(env)
      [] file_type \in {"xlsx", "xlsm"} -> process_xlsx(env)
      [] file_type = "csv" -> process_csv(env)
      [] file_type \in IMAGE_TYPES -> process_image(env)
      [] OTHER -> copy_unsupported(env)

SummaryOf(file_type, o) ==
    CASE file_type = "pdf" -> "PDF document analyzed and redacted."
      [] file_type = "docx" -> "Word document analyzed and redacted."
      [] file_type = "pptx" -> "PowerPoint presentation analyzed and redacted."
      [] file_type \in {"xlsx", "xlsm"} -> "Excel workbook analyzed and redacted."
      [] file_type = "csv" -> "CSV file analyzed and redacted."
      [] file_type \in IMAGE_TYPES -> o.description
      [] OTHER -> "File format not supported for deep analysis."

\* the result dict as created on lines 440-448
NewResult(name) ==
    [originalFileName |-> name,
     fileType |-> FileType(name),
     status |-> "completed",
     summary |-> "A file.",
     piiDetected |-> EmptyDict,
     vulnerabilities |-> <<>>,
     cleansedFilePath |-> NoPath]

\* the worker lets the exception of the processor escape: the future holds
\* the exception instead of a result
WorkerReturnUncaught(name, o) ==
    IF o.raised THEN [kind |-> "exception"]
    ELSE [kind |-> "result",
          value |-> [NewResult(name) EXCEPT
                       !.summary = SummaryOf(FileType(name), o),
                       !.piiDetected = o.pii,
                       !.vulnerabilities = o.vulns,
                       !.cleansedFilePath = cleansed_path(name)]]

\* Lines 479-488: what the worker's future holds once the processor has
\* returned or raised.
WorkerReturn(name, o) ==
    [kind |-> "result",
     value |->
       IF o.raised
       THEN [NewResult(name) EXCEPT
               !.status = "error",
               !.summary = "An error occurred during processing.",
               !.vulnerabilities = << Finding("Critical error", "High") >>]
       ELSE [NewResult(name) EXCEPT
               !.summary = SummaryOf(FileType(name), o),
               !.piiDetected = o.pii,
               !.vulnerabilities = o.vulns,
               !.cleansedFilePath = cleansed_path(name)]]

\* the future of a worker that returned None
NoneFuture == [kind |-> "none"]

\* ------------------------------------------------------------- the state

VARIABLES
    files,          \* main_parallel: the names os.listdir gave, files only
    env,            \* the condition of every file of the directory
    main_pc,        \* main_parallel: "start", "collecting" or "returned"
    task,           \* per file: "queued", "running", "done", "collected"
    local_path,     \* per running worker: its cleansed_path
    future,         \* per file: what its future holds once done
    all_results,    \* main_parallel: the list it returns, as a bag: the
                    \* records and how often each occurs, without their order
    disk,           \* what each output path holds
    raised,         \* per file: its worker entered the except clause of line 482
    blocks,         \* text pipeline: the extracted fragments
    ner,            \* text pipeline: the recognizer's behaviour on the text
    t_pc,           \* text pipeline: "extracted", "redacted", "split", "again"
    full_text,      \* text pipeline: "\n".join(blocks)
    analysis,       \* text pipeline: analyze_and_redact_text_once(full_text)
    redacted_lines, \* text pipeline: redacted_full.split("\n")
    again,          \* text pipeline: the redacted text analysed once more
    kind,           \* map replay: "docx", "pptx" or "xlsx"
    fragments,      \* map replay: the text of every paragraph, shape or cell
    redaction_map,  \* map replay: the dict built by the zip loop
    rebuilt,        \* map replay: the text of every fragment after the walk
    overwritten     \* map replay: the fragments the walk assigned to

batchVars ==
    <<files, env, main_pc, task, local_path, future, all_results, disk, raised>>

textVars == <<blocks, ner, t_pc, full_text, analysis, redacted_lines, again>>

mapVars == <<kind, fragments, redaction_map, rebuilt, overwritten>>

vars == <<files, env, main_pc, task, local_path, future, all_results, disk, raised,
          blocks, ner, t_pc, full_text, analysis, redacted_lines, again,
          kind, fragments, redaction_map, rebuilt, overwritten>>

NoAnalysis == [text |-> <<>>, pii_counts |-> EmptyDict, vulnerabilities |-> <<>>]

NoNer == [fails |-> FALSE, entities |-> <<>>]

\* MAX_WORKERS = min(8, os.cpu_count() or 4), on a host of two processors
MAX_WORKERS == 2

OutputPaths == {cleansed_path(Catalogue[i]) : i \in 1..Len(Catalogue)}

\* The directories of the batch specification: the first n files of the
\* catalogue, or any one file of it.
Listings ==
    {SubSeq(Catalogue, 1, n) : n \in 0..Min(MaxFiles, Len(Catalogue))}
    \cup {<< Catalogue[i] >> : i \in 1..Len(Catalogue)}

BatchIdle ==
    /\ files = <<>>
    /\ env = <<>>
    /\ main_pc = "idle"
    /\ task = <<>>
    /\ local_path = <<>>
    /\ future = <<>>
    /\ all_results = EmptyBag
    /\ disk = [p \in OutputPaths |-> "absent"]
    /\ raised = <<>>

TextIdle ==
    /\ blocks = <<>>
    /\ ner = NoNer
    /\ t_pc = "idle"
    /\ full_text = <<>>
    /\ analysis = NoAnalysis
    /\ redacted_lines = <<>>
    /\ again = NoAnalysis

MapIdle ==
    /\ kind = "none"
    /\ fragments = <<>>
    /\ redaction_map = <<>>
    /\ rebuilt = <<>>
    /\ overwritten = {}

\* ---------------------------------------------------------- main_parallel

\* The state when main_parallel is called on a directory.
Init ==
    /\ \E listing \in Listings :
         /\ files = listing
         /\ env \in {e \in [Range(listing) -> Conditions] :
                       Cardinality({f \in Range(listing) : e[f] \notin Ordinary})
                         <= MaxFaulty}
         /\ task = [f \in Range(listing) |-> "unsubmitted"]
         /\ local_path = [f \in Range(listing) |-> NoPath]
         /\ future = [f \in Range(listing) |-> NoneFuture]
         /\ raised = [f \in Range(listing) |-> FALSE]
    /\ main_pc = "start"
    /\ all_results = EmptyBag
    /\ disk = [p \in OutputPaths |-> "absent"]
    /\ TextIdle
    /\ MapIdle

\* Lines 491-498: an empty directory returns at once; otherwise every file
\* is submitted to the pool.
Submit ==
    /\ main_pc = "start"
    /\ IF files = <<>>
       THEN /\ main_pc' = "returned"
            /\ task' = task
       ELSE /\ main_pc' = "collecting"
            /\ task' = [f \in DOMAIN task |-> "queued"]
    /\ UNCHANGED <<files, env, local_path, future, all_results, disk, raised>>
    /\ UNCHANGED textVars
    /\ UNCHANGED mapVars

\* the pool hands out queued work in submission order
NextQueued(f) ==
    \E i \in 1..Len(files) :
       /\ files[i] = f
       /\ task[f] = "queued"
       /\ \A j \in 1..(i - 1) : task[files[j]] # "queued"

\* Lines 435-454: a free pool thread takes the next file; a path that is no
\* longer a file returns None, otherwise the worker has its output path.
WorkerStart(f) ==
    /\ NextQueued(f)
    /\ Cardinality({g \in DOMAIN task : task[g] = "running"}) < MAX_WORKERS
    /\ IF ~EnvOf(env[f]).exists
       THEN /\ task' = [task EXCEPT ![f] = "done"]
            /\ future' = [future EXCEPT ![f] = NoneFuture]
            /\ local_path' = local_path
       ELSE /\ task' = [task EXCEPT ![f] = "running"]
            /\ local_path' = [local_path EXCEPT ![f] = cleansed_path(f)]
            /\ future' = future
    /\ UNCHANGED <<files, env, main_pc, all_results, disk, raised>>
    /\ UNCHANGED textVars
    /\ UNCHANGED mapVars

\* Lines 456-488: the processor for the file type runs, writes (or not) to
\* the worker's output path, and the worker returns its result.
WorkerFinish(f) ==
    /\ task[f] = "running"
    /\ \E o \in Dispatch(FileType(f), EnvOf(env[f])) :
         /\ future' = [future EXCEPT ![f] = WorkerReturn(f, o)]
         /\ raised' = [raised EXCEPT ![f] = o.raised]
         /\ disk' = IF o.written = "nothing" THEN disk
                    ELSE [disk EXCEPT ![local_path[f]] = o.written]
    /\ task' = [task EXCEPT ![f] = "done"]
    /\ local_path' = [local_path EXCEPT ![f] = NoPath]
    /\ UNCHANGED <<files, env, main_pc, all_results>>
    /\ UNCHANGED textVars
    /\ UNCHANGED mapVars

\* Lines 499-505: as_completed yields a finished future; a result that is
\* not None is appended, an exception is logged and nothing is appended.
Collect(f) ==
    /\ main_pc = "collecting"
    /\ task[f] = "done"
    /\ all_results' = IF future[f].kind = "result"
                      THEN all_results (+) SetToBag({future[f].value})
                      ELSE all_results
    /\ task' = [task EXCEPT ![f] = "collected"]
    /\ UNCHANGED <<files, env, main_pc, local_path, future, disk, raised>>
    /\ UNCHANGED textVars
    /\ UNCHANGED mapVars

\* Lines 506-507: every future has been seen; all_results is returned.
Return ==
    /\ main_pc = "collecting"
    /\ \A f \in DOMAIN task : task[f] = "collected"
    /\ main_pc' = "returned"
    /\ UNCHANGED <<files, env, task, local_path, future, all_results, disk, raised>>
    /\ UNCHANGED textVars
    /\ UNCHANGED mapVars

Next ==
    \/ Submit
    \/ \E f \in DOMAIN task : WorkerStart(f)
    \/ \E f \in DOMAIN task : WorkerFinish(f)
    \/ \E f \in DOMAIN task : Collect(f)
    \/ Return

Spec == Init /\ [][Next]_vars

\* ------------------------------------------------------ the text pipeline

\* The state after a document's fragments were extracted (line 197), for
\* every input text and every behaviour of the recognizer on it.
InitText ==
    /\ \E toks \in TextInputs :
         /\ blocks = BlocksOf(toks)
         /\ ner \in RecognizerBehaviours(toks)
    /\ t_pc = "extracted"
    /\ full_text = <<>>
    /\ analysis = NoAnalysis
    /\ redacted_lines = <<>>
    /\ again = NoAnalysis
    /\ BatchIdle
    /\ MapIdle

\* Lines 202-203: join the fragments, detect and redact once.
DetectApply ==
    /\ t_pc = "extracted"
    /\ full_text' = Join(blocks, NEWLINE)
    /\ analysis' = analyze_and_redact_text_once(Join(blocks, NEWLINE), ner)
    /\ t_pc' = "redacted"
    /\ UNCHANGED <<blocks, ner, redacted_lines, again>>
    /\ UNCHANGED batchVars
    /\ UNCHANGED mapVars

\* Line 204: split the redacted text on the delimiter.
SplitLines ==
    /\ t_pc = "redacted"
    /\ redacted_lines' = Split(analysis.text, NEWLINE)
    /\ t_pc' = "split"
    /\ UNCHANGED <<blocks, ner, full_text, analysis, again>>
    /\ UNCHANGED batchVars
    /\ UNCHANGED mapVars

\* The redacted text is analysed once more, by a recognizer that finds no
\* entity in it (or fails).
Reanalyze ==
    /\ t_pc = "split"
    /\ \E fails \in BOOLEAN :
         again' = analyze_and_redact_text_once(
                    analysis.text, [fails |-> fails, entities |-> <<>>])
    /\ t_pc' = "again"
    /\ UNCHANGED <<blocks, ner, full_text, analysis, redacted_lines>>
    /\ UNCHANGED batchVars
    /\ UNCHANGED mapVars

NextText ==
    \/ DetectApply
    \/ SplitLines
    \/ Reanalyze

SpecText == InitText /\ [][NextText]_vars

\* ------------------------------------------------------- the map replay

\* what a paragraph, a shape or a cell of the documents holds
FragmentTexts == { <<>>, <<"J","o">>, <<"b",".","c","d">> }

\* the documents: up to MaxFragments paragraphs, shapes or cells
Documents == UNION {[1..n -> FragmentTexts] : n \in 1..MaxFragments}

\* the tokens of "\n".join(blocks): the blocks with the delimiter between
Interleave(bs) ==
    [i \in 1..(2 * Len(bs) - 1) |->
       IF i % 2 = 1 THEN bs[(i + 1) \div 2] ELSE << NEWLINE >>]

\* lines 197, 239 and 282: the fragments the document's reader extracts
ExtractBlocks(k, fs) ==
    CASE k = "docx" -> safe_read_text_blocks_from_docx(fs)
      [] k = "pptx" -> safe_read_text_blocks_from_pptx(fs)
      [] k = "xlsx" -> safe_read_text_blocks_from_xlsx(fs)

\* the guard of the walk: lines 213 and 256 for a paragraph or a shape,
\* line 300 for a cell
LookedUp(k, text) ==
    IF k = "xlsx" THEN text # <<>>
    ELSE text # <<>> /\ ~IsBlank(text)

\* the fragments the walk assigns to: looked up, and the new text differs
\* (lines 214-217, 257-260, 301-304)
Overwritten(k, fs, map) ==
    {i \in 1..Len(fs) :
       LookedUp(k, fs[i]) /\ redact_using_map(fs[i], map) # fs[i]}

\* The state after a document with at least one extracted fragment was read
\* (an empty fragment list returns a copy at lines 198-200), for every
\* behaviour of the recognizer on the joined text.
InitMap ==
    /\ \E k \in {"docx", "pptx", "xlsx"} : \E fs \in Documents :
         /\ ExtractBlocks(k, fs) # <<>>
         /\ kind = k
         /\ fragments = fs
         /\ blocks = ExtractBlocks(k, fs)
         /\ ner \in RecognizerBehaviours(Interleave(ExtractBlocks(k, fs)))
    /\ t_pc = "extracted"
    /\ full_text = <<>>
    /\ analysis = NoAnalysis
    /\ redacted_lines = <<>>
    /\ again = NoAnalysis
    /\ redaction_map = <<>>
    /\ rebuilt = <<>>
    /\ overwritten = {}
    /\ BatchIdle

\* Lines 206-217 (248-260, 291-304): the map is built by the zip loop and
\* the walk writes the mapped text into every fragment it looks up.
Rebuild ==
    /\ t_pc = "split"
    /\ kind # "none"
    /\ LET map == BuildRedactionMap(blocks, redacted_lines)
       IN  /\ redaction_map' = map
           /\ rebuilt' = IF kind = "xlsx"
                         THEN RebuildCells(fragments, map)
                         ELSE RebuildParagraphs(fragments, map)
           /\ overwritten' = Overwritten(kind, fragments, map)
    /\ t_pc' = "rebuilt"
    /\ UNCHANGED <<blocks, ner, full_text, analysis, redacted_lines, again,
                   kind, fragments>>
    /\ UNCHANGED batchVars

NextMap ==
    \/ DetectApply
    \/ SplitLines
    \/ Rebuild

SpecMap == InitMap /\ [][NextMap]_vars

\* ------------------------------------------------ properties of the batch

Finished(f) == task[f] \in {"done", "collected"}

HasResult(f) == Finished(f) /\ future[f].kind = "result"

\* the number of records of all_results for file f
RecordsFor(f) ==
    BagCardinality([r \in {x \in BagToSet(all_results) : x.originalFileName = f}
                      |-> all_results[r]])

HasHighFinding(r) ==
    \E i \in 1..Len(r.vulnerabilities) : r.vulnerabilities[i].severity = "High"

SupportedTypes == {"pdf", "docx", "pptx", "xlsx", "xlsm", "csv"} \cup IMAGE_TYPES

\* the file's container cannot be opened or parsed
Corrupted(f) == env[f] \in {"corrupt", "unreadable"}

\* the file is read, processed and saved without any fault
Healthy(f) == env[f] \in {"pii", "clean", "empty"}

\* the processor of the file raised and its worker caught the exception
ProcessorRaised(f) == Finished(f) /\ raised[f]

\* C1: when main_parallel returns, every enumerated file has exactly one
\* record in the returned list.
C1_ExactlyOneRecordPerFile ==
    main_pc = "returned" => \A f \in Range(files) : RecordsFor(f) = 1

\* the batches of the per-file isolation scenario: files of supported types,
\* exactly one of them corrupted, the others healthy
OneCorruptedFile ==
    /\ \A f \in Range(files) : FileType(f) \in SupportedTypes
    /\ Cardinality({f \in Range(files) : Corrupted(f)}) = 1
    /\ \A f \in Range(files) : Corrupted(f) \/ Healthy(f)

\* C2 as stated: in a batch with exactly one corrupted file, every file has
\* a result, the corrupted file's result has status error and the others
\* have status completed.
C2_CorruptedFileIsError ==
    (main_pc = "returned" /\ OneCorruptedFile) =>
       /\ BagCardinality(all_results) = Len(files)
       /\ \A f \in Range(files) :
            /\ HasResult(f)
            /\ future[f].value.status =
                 IF Corrupted(f) THEN "error" ELSE "completed"

\* the open failure of the file escapes its processor: docx, pptx, xlsx and
\* csv copy the input in their except clause, and that copy raises when the
\* bytes cannot be read
OpenFailureRaises(f) ==
    /\ env[f] = "unreadable"
    /\ FileType(f) \in {"docx", "pptx", "xlsx", "xlsm", "csv"}

\* C2, amended: in a batch with exactly one corrupted file, every file has a
\* result and the others have status completed; the corrupted file's result
\* carries a High finding, and its status is completed because its processor
\* recovers the open failure, and error only where the fallback copy of an
\* unreadable docx, pptx, xlsx or csv file raises.
C2_CorruptedFileIsReported ==
    (main_pc = "returned" /\ OneCorruptedFile) =>
       /\ BagCardinality(all_results) = Len(files)
       /\ \A f \in Range(files) :
            /\ HasResult(f)
            /\ RecordsFor(f) = 1
            /\ Corrupted(f) => HasHighFinding(future[f].value)
            /\ future[f].value.status =
                 IF Corrupted(f) /\ OpenFailureRaises(f)
                 THEN "error" ELSE "completed"

\* a batch of five files has returned, one of them corrupted and reported
\* with status completed
C2_Witness ==
    /\ main_pc = "returned"
    /\ OneCorruptedFile
    /\ Len(files) = 5
    /\ BagCardinality(all_results) = 5
    /\ \E f \in Range(files) :
         /\ Corrupted(f)
         /\ future[f].value.status = "completed"
         /\ HasHighFinding(future[f].value)

\* C3: once a worker has returned a result carrying a cleansedFilePath, that
\* path holds a completely saved document or a copy of the input; it is
\* never missing and never partially written.
C3_OutputArtifact ==
    \A f \in DOMAIN task :
       (HasResult(f) /\ future[f].value.cleansedFilePath # NoPath) =>
          disk[future[f].value.cleansedFilePath] \in {"saved", "copy"}

\* C4: an exception raised while a file is processed never reaches the
\* orchestrator: the file's future holds a result with status error, a High
\* finding and no cleansedFilePath, the returned list holds exactly that one
\* record for it, and every healthy file of the batch has its one record,
\* completed, with its output written.
C4_ExceptionIsolated ==
    /\ \A f \in DOMAIN task : Finished(f) => future[f].kind # "exception"
    /\ \A f \in DOMAIN task :
         ProcessorRaised(f) =>
            /\ future[f].kind = "result"
            /\ future[f].value.status = "error"
            /\ HasHighFinding(future[f].value)
            /\ future[f].value.cleansedFilePath = NoPath
    /\ (main_pc = "returned" /\ \E f \in DOMAIN task : ProcessorRaised(f)) =>
          \A g \in DOMAIN task :
             /\ ProcessorRaised(g) => RecordsFor(g) = 1
             /\ Healthy(g) =>
                  /\ RecordsFor(g) = 1
                  /\ future[g].value.status = "completed"
                  /\ disk[future[g].value.cleansedFilePath] \in {"saved", "copy"}

\* a batch of several files has returned in which one file's processor raised
C4_Witness ==
    /\ main_pc = "returned"
    /\ Len(files) >= 2
    /\ \E f \in DOMAIN task :
         /\ ProcessorRaised(f)
         /\ future[f].value.status = "error"
         /\ \E g \in DOMAIN task : g # f /\ Healthy(g) /\ RecordsFor(g) = 1

\* C6: a document of a supported type in which nothing is detected gets an
\* output that is a copy of the input, an empty findings list and an empty
\* PII count mapping.
C6_NoOpOnCleanInput ==
    \A f \in DOMAIN task :
       (HasResult(f) /\ env[f] = "clean" /\ FileType(f) \in SupportedTypes) =>
          /\ future[f].value.cleansedFilePath # NoPath
          /\ disk[future[f].value.cleansedFilePath] = "copy"
          /\ future[f].value.vulnerabilities = <<>>
          /\ future[f].value.piiDetected = EmptyDict

\* the directory of the output path for a file type
DirectoryFor(file_type) ==
    IF file_type \in IMAGE_TYPES THEN REDACTED_IMG_DIR ELSE CLEANSED_DIR

\* C10: no two workers in flight have the same output path; a worker's
\* path is the directory of its file type and "cleansed_" before its own
\* file name, and the files of one directory have pairwise distinct paths.
C10_NoOutputContention ==
    /\ \A f, g \in DOMAIN task :
         (f # g /\ task[f] = "running" /\ task[g] = "running") =>
            local_path[f] # local_path[g]
    /\ \A f \in DOMAIN task :
         task[f] = "running" =>
            local_path[f] = <<DirectoryFor(FileType(f)), "/", "cleansed_">> \o f
    /\ \A i, j \in 1..Len(files) :
         i # j => cleansed_path(files[i]) # cleansed_path(files[j])

\* two workers are in flight at once, one for each file of the same stem
C10_Witness ==
    \E f, g \in DOMAIN task :
       /\ f # g
       /\ f[1] = g[1]
       /\ task[f] = "running"
       /\ task[g] = "running"
       /\ local_path[f] # local_path[g]

\* ---------------------------------------- properties of the text pipeline

\* the first pass has run, on a text the recognizer gave a list for
Redacted == t_pc \in {"redacted", "split", "again"} /\ ~ner.fails

HighFindings(vulnerabilities) ==
    Cardinality({i \in 1..Len(vulnerabilities) :
                   vulnerabilities[i].severity = "High"})

\* a phone-like digit sequence: six or more digits, separators between them
PhoneSeparators == {"-", " ", "."}

PhonePatternMatches(text) ==
    \E i, j \in 1..Len(text) :
       /\ i <= j
       /\ text[i] \in Digit
       /\ text[j] \in Digit
       /\ \A k \in i..j : text[k] \in Digit \cup PhoneSeparators
       /\ Cardinality({k \in i..j : text[k] \in Digit}) >= 6

\* C5: detect and apply on "Contact Jane Doe at jane.doe@example.com or
\* 555-123-4567", the recognizer reporting the one person "Jane Doe", gives
\* a text without an email or phone match, the counts person 1, email 1 and
\* phone 1 and nothing else, and at least two High findings.
C5_EndToEndScenario ==
    (Redacted /\ full_text = ScenarioText) =>
       /\ EMAIL_PATTERN_findall(analysis.text) = <<>>
       /\ HighFindings(analysis.vulnerabilities) >= 2
       /\ \A k \in DOMAIN analysis.pii_counts :
            analysis.pii_counts[k] =
              IF k \in {"person", "email", "phone"} THEN 1 ELSE 0
       /\ {"person", "email", "phone"} \subseteq DOMAIN analysis.pii_counts
       /\ ~PhonePatternMatches(analysis.text)

\* the positions of the text inside a span: an entity the recognizer gave
\* for a person, an organization or a location, or a match of the email
\* pattern
SpanPositions(text, entities) ==
    {p \in 1..Len(text) :
       \/ \E k \in 1..Len(entities) :
             /\ entities[k].entity_group \in {"PER", "ORG", "LOC"}
             /\ entities[k].start < p
             /\ p <= entities[k].end
       \/ \E k \in 1..Len(EMAIL_PATTERN_findall(text)) :
             /\ EMAIL_PATTERN_findall(text)[k][1] <= p
             /\ p < EMAIL_PATTERN_findall(text)[k][2]}

RECURSIVE PaintFrom(_, _, _)
\* the text from position i on, every run of positions inside spans painted
\* over by one placeholder
PaintFrom(text, inside, i) ==
    IF i > Len(text) THEN <<>>
    ELSE IF i \in inside
    THEN (IF i > 1 /\ (i - 1) \in inside THEN <<>> ELSE REDACTED)
         \o PaintFrom(text, inside, i + 1)
    ELSE << text[i] >> \o PaintFrom(text, inside, i + 1)

RECURSIVE MergePlaceholders(_, _, _)
\* the text from position i on, placeholders that stand side by side merged
\* into one (adjacent spans may leave one placeholder each)
MergePlaceholders(text, i, after) ==
    IF i > Len(text) THEN <<>>
    ELSE IF i + Len(REDACTED) - 1 <= Len(text)
            /\ SubSeq(text, i, i + Len(REDACTED) - 1) = REDACTED
    THEN (IF after THEN <<>> ELSE REDACTED)
         \o MergePlaceholders(text, i + Len(REDACTED), TRUE)
    ELSE << text[i] >> \o MergePlaceholders(text, i + 1, FALSE)

\* C7: whatever spans the recognizer returns, the redacted text is the
\* original with every character outside all spans kept in order and every
\* region covered by spans replaced by a clean placeholder, no character of
\* a span left over and no placeholder broken.
C7_OffsetSafety ==
    Redacted =>
       MergePlaceholders(analysis.text, 1, FALSE)
         = PaintFrom(full_text, SpanPositions(full_text, ner.entities), 1)

\* C8: when the N >= 1 extracted fragments hold no newline, the redacted
\* join splits into exactly N entries.
C8_FragmentCount ==
    (/\ t_pc \in {"split", "again"}
     /\ Len(blocks) >= 1
     /\ \A i \in 1..Len(blocks) : NEWLINE \notin Range(blocks[i]))
    => Len(redacted_lines) = Len(blocks)

\* C9: analysing the redacted text once more, the recognizer finding nothing
\* in it, gives the identical text: no pattern matches the placeholder.
C9_Idempotence ==
    (t_pc = "again" /\ ~ner.fails) => again.text = analysis.text

\* a redacted text whose placeholder stands directly before an '@' has been
\* analysed once more
C9_Witness ==
    /\ t_pc = "again"
    /\ ~ner.fails
    /\ \E i \in 1..(Len(analysis.text) - 1) :
         analysis.text[i] = "]" /\ analysis.text[i + 1] = "@"
    /\ again.pii_counts # EmptyDict
    /\ again.text = analysis.text

\* ------------------------------------------- properties of the map replay

\* the pairs the zip loop sees
Zipped == 1..Min(Len(blocks), Len(redacted_lines))

\* the first position of the content among the extracted fragments
FirstOccurrence(content) ==
    CHOOSE i \in 1..Len(blocks) :
       /\ blocks[i] = content
       /\ \A j \in 1..(i - 1) : blocks[j] # content

\* the map holds the zipped originals, each with the redacted fragment of
\* its first occurrence
FirstMappingKept ==
    /\ DOMAIN redaction_map = {blocks[i] : i \in Zipped}
    /\ \A orig \in DOMAIN redaction_map :
         redaction_map[orig] = redacted_lines[FirstOccurrence(orig)]

\* what the replay leaves in fragment i: the mapped text when its content is
\* a key of the map, its own text otherwise
Replayed(i) ==
    IF fragments[i] \in DOMAIN redaction_map
    THEN rebuilt[i] = redaction_map[fragments[i]]
    ELSE rebuilt[i] = fragments[i]

\* a fragment is assigned to only if its mapped text differs from its own
OverwrittenOnlyIfDifferent ==
    \A i \in overwritten :
       /\ fragments[i] \in DOMAIN redaction_map
       /\ redaction_map[fragments[i]] # fragments[i]
       /\ rebuilt[i] # fragments[i]

====
